---- MODULE Spec2Model ----
(***************************************************************************)
(* typhoon-core: the reactive Signal (use_state, clone, get, set,          *)
(* subscribe) and the localStorage-backed signal (use_local_storage).      *)
(*                                                                         *)
(* The program is single threaded.  A call to Signal::set runs its         *)
(* notification round synchronously; a subscriber may call get, set or     *)
(* subscribe again, which nests on the call stack.  The call stack of      *)
(* running set calls is the variable `stack` (last element = innermost     *)
(* call); operations of the main program / event handlers happen only when *)
(* the stack is empty.                                                     *)
(*                                                                         *)
(* Further parts, each with a specification of its own: use_memo           *)
(* (SpecMemo), use_router (SpecRouter), the tp! macro of typhoon-macro     *)
(* with the construction primitives its generated code calls (SpecTp),     *)
(* use_effect and use_interval on the host's event loop (SpecLoop), and    *)
(* programs in which a subscriber panics (SpecAbort).                      *)
(***************************************************************************)
EXTENDS Integers, Sequences, FiniteSets, TLC

\* ---------------------------------------------------------------- bounds
\* MaxSize bounds the objects the program makes: cells, handles and
\* subscribers together.  MaxVal bounds the values stored.
MaxSize == 6
MaxVal == 1

\* Every cell comes with a handle, so at most half of the objects are cells;
\* one more cell is the one use_memo makes.
MaxCells == MaxSize \div 2 + 1
MaxHandles == MaxSize - 1
\* The depth of nested set calls the call stack holds.
MaxDepth == MaxSize \div 2
\* Deps is implemented for one signal and for tuples of up to three.
MaxDeps == 3

Cells == 1..MaxCells
Handles == 1..MaxHandles
Values == 0..MaxVal

\* MaxEffects bounds the effects the program makes, MaxTurns the tasks the
\* program and the intervals start.
MaxEffects == 1
MaxTurns == 5
\* An interval takes a turn to be made and a turn for each tick: the turns
\* leave room for this many intervals that tick more than once.
MaxTimers == (MaxTurns + 1) \div 3
Timers == 1..MaxTimers
Effects == 1..MaxEffects

VARIABLES
    alloc,      \* number of SignalInner cells allocated so far
    value,      \* value[c]: SignalInner.value
    subs,       \* subs[c]: SignalInner.subscribers, entries [id, k, c]
    bflag,      \* bflag[c]: borrow state of the RefCell (0 free, >0 shared, -1 exclusive)
    nh,         \* number of Signal handles created so far
    inner,      \* inner[h]: the Rc pointer held by handle h (0 = handle not created)
    origin,     \* origin[h]: which use_state / use_local_storage call h derives from
    nsub,       \* number of subscribe calls made so far (gives each closure its id)
    regs,       \* regs[c]: ids of the subscribe calls made on cell c, in call order
    lastArg,    \* lastArg[c]: argument of the most recently begun set on c (or the initial value)
    stack,      \* call stack of running Signal::set calls
    status,     \* "ok", or how the program stopped
    lsCell,     \* the cell made by use_local_storage (0 = none)
    lsDefault,  \* the default supplied to use_local_storage
    store,      \* localStorage item under the key: <<>> absent, <<json>> present
    lastWrite,  \* outcome of the latest run of the persistence subscriber
    ev,         \* what the last step did
    rRoutes,    \* use_router: the paths of the route list, in list order
    rHash,      \* window.location.hash
    rActive,    \* use_router has run: the hashchange listener is attached
    rPending,   \* hashchange events fired and not yet delivered
    rContainer, \* children of the router's container, in document order
    rCalls,     \* route handlers called by the latest run of render, in call order
    rSeen,      \* the location.hash the latest run of render read
    rSerial,    \* number of elements the route handlers have made
    rNav,       \* number of navigations so far
    tTpl,       \* tp!: <<template>> when the input was written from one, else <<>>
    tSrc,       \* the token trees tp! is applied to
    tPhase,     \* "source", "rejected", "compiled", "running", "done", "panicked"
    tProg,      \* the statements of the generated procedure
    tLog,       \* the calls the running procedure has issued, in order
    tRefused,   \* position of the first call the host refused (0 = none)
    tRoot,      \* <<handle>> once the procedure has returned its root
    memoCell,   \* the cell made by use_memo (0 = none)
    memoDeps,   \* the cells of the dependencies of the memo, in tuple order
    memoFresh,  \* the latest write of the memo's cell was made by use_memo's closure
    turn,       \* number of event-loop turns (tasks) begun so far
    inTurn,     \* a task of the program is running (synchronous code)
    ivHandle,   \* ivHandle[i]: the IntervalHandle of interval i: "none", "alive", "dropped", "forgotten"
    ivSet,      \* ivSet[i]: the host holds interval i (setInterval made, not cleared)
    ivTicks,    \* ivTicks[i]: periods of interval i that have elapsed
    ivCalls,    \* ivCalls[i]: invocations of the callback of interval i
    efSlot,     \* efSlot[j]: the Option holding effect j's callback: "none", "some", "taken"
    efQueued,   \* efQueued[j]: the host holds the timeout of effect j
    efAt,       \* efAt[j]: the turn in which use_effect was called for effect j
    efCalls     \* efCalls[j]: invocations of the callback of effect j

vars == <<alloc, value, subs, bflag, nh, inner, origin, nsub, regs, lastArg,
          stack, status, lsCell, lsDefault, store, lastWrite, ev,
          rRoutes, rHash, rActive, rPending, rContainer, rCalls, rSeen, rSerial,
          rNav, tTpl, tSrc, tPhase, tProg, tLog, tRefused, tRoot,
          memoCell, memoDeps, memoFresh,
          turn, inTurn, ivHandle, ivSet, ivTicks, ivCalls,
          efSlot, efQueued, efAt, efCalls>>

sigVars == <<alloc, value, subs, bflag, nh, inner, origin, nsub, regs, lastArg>>
lsVars == <<lsCell, lsDefault, store, lastWrite>>
routerVars == <<rRoutes, rHash, rActive, rPending, rContainer, rCalls, rSeen,
                rSerial, rNav>>
\* What the operations of Signal leave alone.
tplVars == <<tTpl, tSrc, tPhase, tProg, tLog, tRefused, tRoot>>
memoVars == <<memoCell, memoDeps, memoFresh>>
loopVars == <<turn, inTurn, ivHandle, ivSet, ivTicks, ivCalls,
              efSlot, efQueued, efAt, efCalls>>
extVars == <<routerVars, tplVars, memoCell, memoDeps, loopVars>>

\* No memo has been made.
NoMemo ==
    /\ memoCell = 0
    /\ memoDeps = <<>>
    /\ memoFresh = FALSE

\* The main task runs; no interval and no effect has been made.
NoLoop ==
    /\ turn = 1
    /\ inTurn = TRUE
    /\ ivHandle = [i \in Timers |-> "none"]
    /\ ivSet = [i \in Timers |-> FALSE]
    /\ ivTicks = [i \in Timers |-> 0]
    /\ ivCalls = [i \in Timers |-> 0]
    /\ efSlot = [j \in Effects |-> "none"]
    /\ efQueued = [j \in Effects |-> FALSE]
    /\ efAt = [j \in Effects |-> 0]
    /\ efCalls = [j \in Effects |-> 0]

\* No router has been made; the page was loaded without a fragment.
NoRouter ==
    /\ rRoutes = <<>>
    /\ rHash = ""
    /\ rActive = FALSE
    /\ rPending = 0
    /\ rContainer = <<>>
    /\ rCalls = <<>>
    /\ rSeen = ""
    /\ rSerial = 0
    /\ rNav = 0

\* tp! has not been applied.
NoTemplate ==
    /\ tTpl = <<>>
    /\ tSrc = <<>>
    /\ tPhase = "none"
    /\ tProg = <<>>
    /\ tLog = <<>>
    /\ tRefused = 0
    /\ tRoot = <<>>

\* ------------------------------------------------------- serde_json (numbers)
\* serde_json::to_string of an integer: its decimal text.
Encode(v) == ToString(v)

\* A stored text that is no JSON document.
Malformed == "{"

StoredTexts == {Encode(v) : v \in Values} \cup {Malformed}

\* serde_json::from_str(..).ok(): <<v>> when the text parses, <<>> otherwise.
Decode(s) ==
    IF \E v \in Values : Encode(v) = s
    THEN <<CHOOSE v \in Values : Encode(v) = s>>
    ELSE <<>>

\* ------------------------------------------------------------- RefCell
Borrow(b) == b + 1
Release(b) == b - 1
\* RefCell::borrow succeeds unless exclusively borrowed; borrow_mut needs it free.
CanBorrow(bf, c) == bf[c] >= 0
CanBorrowMut(bf, c) == bf[c] = 0

\* ------------------------------------------------------------ Signal::get
Get(c) == value[c]

\* ------------------------------------------------------------ events
\* A frame of the call stack: one running Signal::set.  c, n (`len`), i and v
\* are the call's own variables; the rest records its history: snap, the ids
\* subscribed when it began; start, the number of subscribe calls made before
\* it began; inv, the ids it has invoked; d, its call depth; re, whether a set
\* on the same cell began while it was running.
NoFrame == [c |-> 0, n |-> 0, i |-> 0, v |-> 0, snap |-> <<>>, start |-> 0,
            inv |-> <<>>, d |-> 0, re |-> FALSE]

NoEvent == [op |-> "none", h |-> 0, c |-> 0, id |-> 0, k |-> "none", t |-> 0,
            v |-> 0, fr |-> NoFrame]

Event(op, h, c, id, k, t, v, fr) ==
    [op |-> op, h |-> h, c |-> c, id |-> id, k |-> k, t |-> t, v |-> v, fr |-> fr]

Ids(list) == [j \in 1..Len(list) |-> list[j].id]

Init ==
    /\ alloc = 0
    /\ value = [c \in Cells |-> 0]
    /\ subs = [c \in Cells |-> <<>>]
    /\ bflag = [c \in Cells |-> 0]
    /\ nh = 0
    /\ inner = [h \in Handles |-> 0]
    /\ origin = [h \in Handles |-> 0]
    /\ nsub = 0
    /\ regs = [c \in Cells |-> <<>>]
    /\ lastArg = [c \in Cells |-> 0]
    /\ stack = <<>>
    /\ status = "ok"
    /\ lsCell = 0
    /\ lsDefault = 0
    /\ store = <<>>
    /\ lastWrite = "none"
    /\ ev = NoEvent
    /\ NoRouter
    /\ NoTemplate
    /\ NoMemo
    /\ NoLoop

Idle == stack = <<>> /\ status = "ok"
\* The objects the program has made itself: the cell, the handle and the
\* subscribers use_memo makes inside are not counted.
Size == alloc + nh + nsub - (IF memoCell = 0 THEN 0 ELSE 2 + Len(memoDeps))
Room(k) == Size + k <= MaxSize
Running == stack /= <<>> /\ status = "ok"
Live(h) == h \in 1..nh

\* ------------------------------------------------------------ Signal::new
\* Every call handing out one shared cell.
NewCellShared(n) == 1

NewCell(n) == n + 1

\* use_state(initial): a fresh cell holding `initial`, no subscribers.
UseState(v) ==
    /\ Idle
    /\ Room(2)
    /\ LET c == NewCell(alloc) IN
        /\ alloc' = alloc + 1
        /\ value' = [value EXCEPT ![c] = v]
        /\ subs' = [subs EXCEPT ![c] = <<>>]
        /\ lastArg' = [lastArg EXCEPT ![c] = v]
        /\ nh' = nh + 1
        /\ inner' = [inner EXCEPT ![nh + 1] = c]
        /\ origin' = [origin EXCEPT ![nh + 1] = nh + 1]
        /\ ev' = Event("create", nh + 1, c, 0, "none", 0, v, NoFrame)
    /\ UNCHANGED <<bflag, nsub, regs, stack, status, lsVars>>
    /\ UNCHANGED extVars
    /\ UNCHANGED memoFresh

\* ------------------------------------------------------------ Signal::clone
\* A clone that copies the state into another cell instead of sharing it.
RcDeepCopy(p) == IF alloc < MaxCells THEN alloc + 1 ELSE 1

\* Rc::clone: the same pointer.
RcClone(p) == p

Clone(h) ==
    /\ Idle
    /\ Live(h)
    /\ Room(1)
    /\ nh' = nh + 1
    /\ inner' = [inner EXCEPT ![nh + 1] = RcClone(inner[h])]
    /\ origin' = [origin EXCEPT ![nh + 1] = origin[h]]
    /\ ev' = Event("clone", origin[h], inner[h], 0, "none", 0, 0, NoFrame)
    /\ UNCHANGED <<alloc, value, subs, bflag, nsub, regs, lastArg, stack, status, lsVars>>
    /\ UNCHANGED extVars
    /\ UNCHANGED memoFresh

\* ------------------------------------------------------------ Signal::get
\* A get that moves the value out and leaves the default in the cell.
Moved(v) == 0

\* self.inner.borrow().value.clone(): the cell keeps its value.
Cloned(v) == v

\* get() from the main program or an event handler.
TopGet(h) ==
    /\ Idle
    /\ Live(h)
    /\ IF CanBorrow(bflag, inner[h])
       THEN /\ ev' = Event("get", origin[h], inner[h], 0, "none", inner[h], Get(inner[h]), NoFrame)
            /\ value' = [value EXCEPT ![inner[h]] = Cloned(@)]
            /\ status' = status
       ELSE /\ ev' = Event("panic", origin[h], inner[h], 0, "none", inner[h], 0, NoFrame)
            /\ value' = value
            /\ status' = "panic"
    /\ UNCHANGED <<alloc, subs, bflag, nh, inner, origin, nsub, regs, lastArg, stack, lsVars>>
    /\ UNCHANGED extVars
    /\ UNCHANGED memoFresh

\* ------------------------------------------------------------ Signal::subscribe
\* Closures the model registers: what a subscriber does when invoked, on the
\* cell t it captured (a clone of a handle):
\*   "get"    reads t.get()                       (counter: count.subscribe)
\*   "sub"    if t.get() /= 0, t.subscribe(a "get" closure)
\*   "clamp"  if t.get() /= 0, t.set(0)
\*   "reset"  t.set(0)
\*   "writer" the persistence subscriber of use_local_storage
\*   "abort"  panics (an unwrap of None, an index out of range)
UserKinds == {"get", "sub", "clamp", "reset"}
\* The closures of the programs in which a subscriber may panic.
AbortKinds == {"get", "clamp", "abort"}

\* A boxed closure: id, the subscribe call that registered it; k and c, what it
\* does and the cell it captured; o, the origin of the handle it was registered
\* through (0 when registered by another subscriber).
Entry(id, k, t, o) == [id |-> id, k |-> k, c |-> t, o |-> o]

\* Inserting at the front instead of the end.
PushFront(list, e) == <<e>> \o list

\* Vec::push
Push(list, e) == Append(list, e)

\* Targets a closure registered on cell c may capture.
Targets(c, k) == IF k = "clamp" THEN 1..alloc ELSE {c}

TopSubscribe(h, k, t) ==
    /\ Idle
    /\ Live(h)
    /\ Room(1)
    /\ k \in UserKinds \cup AbortKinds
    /\ t \in Targets(inner[h], k)
    /\ LET c == inner[h] IN
        IF CanBorrowMut(bflag, c)
        THEN /\ subs' = [subs EXCEPT ![c] = Push(subs[c], Entry(nsub + 1, k, t, origin[h]))]
             /\ regs' = [regs EXCEPT ![c] = Append(regs[c], nsub + 1)]
             /\ nsub' = nsub + 1
             /\ status' = status
             /\ ev' = Event("subscribe", origin[h], c, nsub + 1, k, t, 0, NoFrame)
        ELSE /\ status' = "panic"
             /\ ev' = Event("panic", origin[h], c, 0, k, t, 0, NoFrame)
             /\ UNCHANGED <<subs, regs, nsub>>
    /\ UNCHANGED <<alloc, value, bflag, nh, inner, origin, lastArg, stack, lsVars>>
    /\ UNCHANGED extVars
    /\ UNCHANGED memoFresh

\* ------------------------------------------------------------ Signal::set
\* Writing to a copy, so that the cell keeps its old value.
StoreToCopy(old, v) == old

\* self.inner.borrow_mut().value = value
Store(old, v) == v

\* The frame of a set call that has written the value and captured `len`.
NewFrame(c, v, depth) ==
    [c |-> c, n |-> Len(subs[c]), i |-> 0, v |-> v, snap |-> Ids(subs[c]),
     start |-> nsub, inv |-> <<>>, d |-> depth, re |-> FALSE]

\* Queueing the new round until the running rounds are done.
Deferred(st, f) == <<f>> \o st

\* A set call made by a subscriber nests on the call stack.
PushFrame(st, f) == Append(st, f)

\* Rounds on cell c that are suspended while a new set on c begins.
MarkRe(st, c) ==
    [j \in 1..Len(st) |-> IF st[j].c = c THEN [st[j] EXCEPT !.re = TRUE] ELSE st[j]]

TopSet(h, v) ==
    /\ Idle
    /\ Live(h)
    /\ LET c == inner[h] IN
        IF CanBorrowMut(bflag, c)
        THEN /\ value' = [value EXCEPT ![c] = Store(value[c], v)]
             /\ lastArg' = [lastArg EXCEPT ![c] = v]
             /\ stack' = PushFrame(stack, NewFrame(c, v, 1))
             /\ status' = status
             /\ ev' = Event("set", origin[h], c, 0, "none", c, v, NoFrame)
        ELSE /\ status' = "panic"
             /\ ev' = Event("panic", origin[h], c, 0, "none", c, v, NoFrame)
             /\ UNCHANGED <<value, lastArg, stack>>
    /\ UNCHANGED <<alloc, subs, bflag, nh, inner, origin, nsub, regs, lsVars>>
    /\ UNCHANGED extVars
    /\ memoFresh' = (memoFresh /\ ~(inner[h] = memoCell /\ stack' /= stack))

\* The loop of set: `for i in 0..len`, len captured before the loop.
\* Reading the length again on every iteration.
RereadLen(len, now) == now

RoundBound(len, now) == len

\* Stepping over a subscriber.
SkipIndex(i) == i + 2

NextIndex(i) == i + 1

\* A loop that does not see the end of its range.
RoundDoneLate(i, n) == i > n

RoundDone(i, n) == i >= n

\* `let guard = rc.borrow(); &*guard.subscribers[i]` and the guard dropped at the
\* end of the block, before the call through the pointer.
\* The guard kept alive across the call.
KeepGuard(b) == Borrow(b)

AfterResolve(b) == Release(Borrow(b))

Top == stack[Len(stack)]
CanInvoke == Running /\ Top.i < RoundBound(Top.n, Len(subs[Top.c]))
Cur == subs[Top.c][Top.i + 1]
Advanced == [stack EXCEPT ![Len(stack)] =
                [Top EXCEPT !.i = NextIndex(Top.i), !.inv = Append(Top.inv, Cur.id)]]
Resolved == [bflag EXCEPT ![Top.c] = AfterResolve(bflag[Top.c])]
Invoked(v) == Event("invoke", 0, Top.c, Cur.id, Cur.k, Cur.c, v, Top)
Panicked == Event("panic", 0, Top.c, Cur.id, Cur.k, Cur.c, 0, Top)

\* A subscriber that reads the cell it captured.
InvokeGet ==
    /\ CanInvoke
    /\ Cur.k = "get"
    /\ bflag' = Resolved
    /\ stack' = Advanced
    /\ IF CanBorrow(Resolved, Cur.c)
       THEN /\ ev' = Invoked(Get(Cur.c))
            /\ value' = [value EXCEPT ![Cur.c] = Cloned(@)]
            /\ status' = status
       ELSE ev' = Panicked /\ value' = value /\ status' = "panic"
    /\ UNCHANGED <<alloc, subs, nh, inner, origin, nsub, regs, lastArg, lsVars>>
    /\ UNCHANGED extVars
    /\ UNCHANGED memoFresh

\* A subscriber that registers another subscriber while the round runs.
InvokeSub ==
    /\ CanInvoke
    /\ Cur.k = "sub"
    /\ bflag' = Resolved
    /\ stack' = Advanced
    /\ LET t == Cur.c IN
        IF ~CanBorrow(Resolved, t)
        THEN ev' = Panicked /\ status' = "panic" /\ UNCHANGED <<subs, regs, nsub>>
        ELSE IF Get(t) = 0
        THEN ev' = Invoked(Get(t)) /\ status' = status /\ UNCHANGED <<subs, regs, nsub>>
        ELSE IF ~CanBorrowMut(Resolved, t)
        THEN ev' = Panicked /\ status' = "panic" /\ UNCHANGED <<subs, regs, nsub>>
        ELSE IF ~Room(1)
        THEN ev' = Invoked(Get(t)) /\ status' = "limit" /\ UNCHANGED <<subs, regs, nsub>>
        ELSE /\ subs' = [subs EXCEPT ![t] = Push(subs[t], Entry(nsub + 1, "get", t, 0))]
             /\ regs' = [regs EXCEPT ![t] = Append(regs[t], nsub + 1)]
             /\ nsub' = nsub + 1
             /\ status' = status
             /\ ev' = Invoked(Get(t))
    /\ UNCHANGED <<alloc, value, nh, inner, origin, lastArg, lsVars>>
    /\ UNCHANGED extVars
    /\ UNCHANGED memoFresh

\* A subscriber that calls set on the cell it captured (re-entrant when that is
\* the cell being notified).
InvokeSet ==
    /\ CanInvoke
    /\ Cur.k \in {"clamp", "reset"}
    /\ bflag' = Resolved
    /\ LET t == Cur.c IN
        IF Cur.k = "clamp" /\ ~CanBorrow(Resolved, t)
        THEN ev' = Panicked /\ status' = "panic" /\ stack' = Advanced
             /\ UNCHANGED <<value, lastArg>>
        ELSE IF Cur.k = "clamp" /\ Get(t) = 0
        THEN ev' = Invoked(Get(t)) /\ status' = status /\ stack' = Advanced
             /\ UNCHANGED <<value, lastArg>>
        ELSE IF Len(stack) >= MaxDepth
        THEN ev' = Invoked(Get(t)) /\ status' = "overflow" /\ stack' = Advanced
             /\ UNCHANGED <<value, lastArg>>
        ELSE IF ~CanBorrowMut(Resolved, t)
        THEN ev' = Panicked /\ status' = "panic" /\ stack' = Advanced
             /\ UNCHANGED <<value, lastArg>>
        ELSE /\ value' = [value EXCEPT ![t] = Store(value[t], 0)]
             /\ lastArg' = [lastArg EXCEPT ![t] = 0]
             /\ stack' = PushFrame(MarkRe(Advanced, t), NewFrame(t, 0, Len(stack) + 1))
             /\ status' = status
             /\ ev' = Invoked(Get(t))
    /\ UNCHANGED <<alloc, subs, nh, inner, origin, nsub, regs, lsVars>>
    /\ UNCHANGED extVars
    /\ memoFresh' = (memoFresh /\ ~(Cur.c = memoCell /\ Len(stack') > Len(stack)))

\* A panic caught inside set, the loop going on with the next subscriber.
CatchUnwind(st) == st

\* set calls the subscriber with nothing between the call and its own caller:
\* a panic of the subscriber leaves set, and every call around it, at once.
Unwind(st) == "panic"

\* A subscriber that panics.
InvokeAbort ==
    /\ CanInvoke
    /\ Cur.k = "abort"
    /\ bflag' = Resolved
    /\ stack' = Advanced
    /\ ev' = Panicked
    /\ status' = Unwind(status)
    /\ UNCHANGED <<alloc, value, subs, nh, inner, origin, nsub, regs, lastArg, lsVars>>
    /\ UNCHANGED extVars
    /\ UNCHANGED memoFresh

\* The loop of set has run through its range: set returns to its caller.
PopFrame(st) == SubSeq(st, 1, Len(st) - 1)

Return ==
    /\ Running
    /\ RoundDone(Top.i, RoundBound(Top.n, Len(subs[Top.c])))
    /\ stack' = PopFrame(stack)
    /\ ev' = Event("return", 0, Top.c, 0, "none", Top.c, Top.v, Top)
    /\ UNCHANGED <<sigVars, status, lsVars>>
    /\ UNCHANGED extVars
    /\ UNCHANGED memoFresh

\* ------------------------------------------------------------ use_local_storage
\* The chain get_item -> from_str -> unwrap_or(default): `item` is what get_item
\* yields (<<>> when storage is unavailable or holds nothing under the key).
\* Never reading the stored item.
LoadDefault(item, def) == def

LoadInitial(item, def) ==
    IF item /= <<>> /\ Decode(item[1]) /= <<>> THEN Decode(item[1])[1] ELSE def

\* use_local_storage(key, default); avail: whether window.localStorage can be had.
UseLocalStorage(def, avail) ==
    /\ Idle
    /\ lsCell = 0
    /\ Room(3)
    /\ LET c == NewCell(alloc)
           initial == LoadInitial(IF avail THEN store ELSE <<>>, def)
       IN
        /\ alloc' = alloc + 1
        /\ value' = [value EXCEPT ![c] = initial]
        /\ lastArg' = [lastArg EXCEPT ![c] = initial]
        /\ subs' = [subs EXCEPT ![c] = Push(<<>>, Entry(nsub + 1, "writer", c, nh + 1))]
        /\ regs' = [regs EXCEPT ![c] = <<nsub + 1>>]
        /\ nsub' = nsub + 1
        /\ nh' = nh + 1
        /\ inner' = [inner EXCEPT ![nh + 1] = c]
        /\ origin' = [origin EXCEPT ![nh + 1] = nh + 1]
        /\ lsCell' = c
        /\ lsDefault' = def
        /\ ev' = Event(IF avail THEN "create_ls" ELSE "create_ls_nostorage",
                       nh + 1, c, nsub + 1, "writer", c, initial, NoFrame)
    /\ UNCHANGED <<bflag, stack, status, store, lastWrite>>
    /\ UNCHANGED extVars
    /\ UNCHANGED memoFresh

\* Unwrapping the failed result instead of dropping it.
Propagate(st) == "panic"

\* `if let Some(storage)`, `if let Ok(json)` and `.ok()`: a failed step of the
\* persistence subscriber is dropped and the subscriber returns normally.
Swallow(st) == st

\* A write that leaves the item as it was.
DropItem(old, json) == old

\* storage.set_item(key, &json): the item under the key is replaced.
SetItem(old, json) == <<json>>

\* The persistence subscriber.  out: "nostorage" when window.localStorage cannot
\* be had, "encode" when serde_json::to_string returns Err, "quota" when
\* set_item is refused, "ok" when the item is stored.
WriteOutcomes == {"ok", "nostorage", "encode", "quota"}

InvokeWriter(out) ==
    /\ CanInvoke
    /\ Cur.k = "writer"
    /\ bflag' = Resolved
    /\ stack' = Advanced
    /\ LET t == Cur.c IN
        IF out = "nostorage"
        THEN ev' = Invoked(0) /\ status' = Swallow(status) /\ lastWrite' = out
             /\ store' = store
        ELSE IF ~CanBorrow(Resolved, t)
        THEN ev' = Panicked /\ status' = "panic" /\ UNCHANGED <<store, lastWrite>>
        ELSE IF out /= "ok"
        THEN ev' = Invoked(Get(t)) /\ status' = Swallow(status) /\ lastWrite' = out
             /\ store' = store
        ELSE ev' = Invoked(Get(t)) /\ status' = status /\ lastWrite' = "ok"
             /\ store' = SetItem(store, Encode(Get(t)))
    /\ UNCHANGED <<alloc, value, subs, nh, inner, origin, nsub, regs, lastArg,
                   lsCell, lsDefault>>
    /\ UNCHANGED extVars
    /\ UNCHANGED memoFresh

Next ==
    \/ \E v \in Values : UseState(v)
    \/ \E h \in Handles : Clone(h)
    \/ \E h \in Handles : TopGet(h)
    \/ \E h \in Handles, k \in UserKinds, t \in Cells : TopSubscribe(h, k, t)
    \/ \E h \in Handles, v \in Values : TopSet(h, v)
    \/ InvokeGet
    \/ InvokeSub
    \/ InvokeSet
    \/ Return

Spec == Init /\ [][Next]_vars

\* A synchronous call keeps running until it returns: the steps of a running
\* set are not left undone.
FairSpec ==
    /\ Spec
    /\ WF_vars(InvokeGet)
    /\ WF_vars(InvokeSub)
    /\ WF_vars(InvokeSet)
    /\ WF_vars(Return)

\* Programs in which a subscriber may panic.
NextAbort ==
    \/ \E v \in Values : UseState(v)
    \/ \E h \in Handles, k \in AbortKinds, t \in Cells : TopSubscribe(h, k, t)
    \/ \E h \in Handles, v \in Values : TopSet(h, v)
    \/ InvokeGet
    \/ InvokeSet
    \/ InvokeAbort
    \/ Return

SpecAbort == Init /\ [][NextAbort]_vars

\* The program of one persistence-backed signal: localStorage may already hold
\* an item under the key, written by an earlier session.
InitLS ==
    /\ alloc = 0
    /\ value = [c \in Cells |-> 0]
    /\ subs = [c \in Cells |-> <<>>]
    /\ bflag = [c \in Cells |-> 0]
    /\ nh = 0
    /\ inner = [h \in Handles |-> 0]
    /\ origin = [h \in Handles |-> 0]
    /\ nsub = 0
    /\ regs = [c \in Cells |-> <<>>]
    /\ lastArg = [c \in Cells |-> 0]
    /\ stack = <<>>
    /\ status = "ok"
    /\ lsCell = 0
    /\ lsDefault = 0
    /\ store \in {<<>>} \cup {<<s>> : s \in StoredTexts}
    /\ lastWrite = "none"
    /\ ev = NoEvent
    /\ NoRouter
    /\ NoTemplate
    /\ NoMemo
    /\ NoLoop

NextLS ==
    \/ \E def \in Values, avail \in BOOLEAN : UseLocalStorage(def, avail)
    \/ \E h \in Handles : TopGet(h)
    \/ \E h \in Handles, k \in UserKinds, t \in Cells : TopSubscribe(h, k, t)
    \/ \E h \in Handles, v \in Values : TopSet(h, v)
    \/ \E out \in WriteOutcomes : InvokeWriter(out)
    \/ InvokeGet
    \/ InvokeSub
    \/ InvokeSet
    \/ Return

SpecLS == InitLS /\ [][NextLS]_vars

\* --------------------------------------------------------------- use_memo
\* The compute closure of the memo: a function of the values its dependencies
\* hold when it runs.
Compute(deps) ==
    LET at(j) == IF j <= Len(deps) THEN Get(deps[j]) ELSE 0
    IN (1 + at(1) + at(2) + at(3)) % (MaxVal + 1)

\* Subscribing to the first signal of a tuple only.
OnChangeFirst(deps) == <<deps[1]>>

\* Deps::on_change for a signal and for tuples of two and three signals: one
\* subscribe call per component, in tuple order.
OnChange(deps) == deps

DepLists == UNION {[1..n -> Handles] : n \in 1..MaxDeps}

\* use_memo(deps, compute); deps: the handles of the dependencies.
UseMemo(deps) ==
    /\ Idle
    /\ memoCell = 0
    /\ alloc < MaxCells
    /\ nh < MaxHandles
    /\ \A j \in 1..Len(deps) : Live(deps[j])
    /\ LET m == NewCell(alloc)
           cells == [j \in 1..Len(deps) |-> inner[deps[j]]]
           targets == OnChange(cells)
           all == [j \in 1..Len(targets) |->
                        [to |-> targets[j], e |-> Entry(nsub + j, "memo", m, nh + 1)]]
           added(c) == SelectSeq(all, LAMBDA x : x.to = c)
       IN
        /\ alloc' = alloc + 1
        /\ value' = [value EXCEPT ![m] = Compute(cells)]
        /\ lastArg' = [lastArg EXCEPT ![m] = Compute(cells)]
        /\ nh' = nh + 1
        /\ inner' = [inner EXCEPT ![nh + 1] = m]
        /\ origin' = [origin EXCEPT ![nh + 1] = nh + 1]
        /\ subs' = [c \in Cells |->
                        subs[c] \o [i \in 1..Len(added(c)) |-> added(c)[i].e]]
        /\ regs' = [c \in Cells |->
                        regs[c] \o [i \in 1..Len(added(c)) |-> added(c)[i].e.id]]
        /\ nsub' = nsub + Len(targets)
        /\ memoCell' = m
        /\ memoDeps' = cells
        /\ memoFresh' = TRUE
        /\ ev' = Event("create_memo", nh + 1, m, 0, "memo", m, Compute(cells), NoFrame)
    /\ UNCHANGED <<bflag, stack, status, lsVars, routerVars, tplVars, loopVars>>

\* The closure use_memo subscribes: `result_clone.set(compute_clone())`.
InvokeMemo ==
    /\ CanInvoke
    /\ Cur.k = "memo"
    /\ bflag' = Resolved
    /\ LET m == Cur.c
           result == Compute(memoDeps)
       IN
        IF \E j \in 1..Len(memoDeps) : ~CanBorrow(Resolved, memoDeps[j])
        THEN ev' = Panicked /\ status' = "panic" /\ stack' = Advanced
             /\ UNCHANGED <<value, lastArg, memoFresh>>
        ELSE IF Len(stack) >= MaxDepth
        THEN ev' = Invoked(result) /\ status' = "overflow" /\ stack' = Advanced
             /\ UNCHANGED <<value, lastArg, memoFresh>>
        ELSE IF ~CanBorrowMut(Resolved, m)
        THEN ev' = Panicked /\ status' = "panic" /\ stack' = Advanced
             /\ UNCHANGED <<value, lastArg, memoFresh>>
        ELSE /\ value' = [value EXCEPT ![m] = Store(value[m], result)]
             /\ lastArg' = [lastArg EXCEPT ![m] = result]
             /\ stack' = PushFrame(MarkRe(Advanced, m), NewFrame(m, result, Len(stack) + 1))
             /\ status' = status
             /\ memoFresh' = TRUE
             /\ ev' = Invoked(result)
    /\ UNCHANGED <<alloc, subs, nh, inner, origin, nsub, regs, lsVars>>
    /\ UNCHANGED <<routerVars, tplVars, memoCell, memoDeps, loopVars>>

\* The program around a memo: it makes its signals and then the memo over all
\* of them, listed in the order they were made; it gives a cell at most one
\* subscriber of its own, one that reads a cell or one that sets a cell back
\* to 0.
MemoKinds == {"get", "clamp"}
OwnSubscribers(c) == {j \in 1..Len(subs[c]) : subs[c][j].k /= "memo"}

NextMemo ==
    \/ \E v \in Values : memoCell = 0 /\ UseState(v)
    \/ \E deps \in DepLists :
            /\ Idle /\ memoCell = 0
            /\ {deps[j] : j \in 1..Len(deps)} = 1..nh
            /\ \A j \in 1..(Len(deps) - 1) : deps[j] <= deps[j + 1]
            /\ UseMemo(deps)
    \/ \E h \in Handles, k \in MemoKinds, t \in Cells :
            /\ memoCell /= 0
            /\ Live(h)
            /\ OwnSubscribers(inner[h]) = {}
            /\ TopSubscribe(h, k, t)
    \/ \E h \in Handles, v \in Values : memoCell /= 0 /\ TopSet(h, v)
    \/ InvokeGet
    \/ InvokeSet
    \/ InvokeMemo
    \/ Return

SpecMemo == Init /\ [][NextMemo]_vars

\* ------------------------------------------------------------- use_router
\* MaxRoutes bounds the length of the route list, MaxNav the navigations.
MaxRoutes == 2
MaxNav == 3

\* Values of window.location.hash, and the paths routes are declared with.
Hashes == {"", "#/", "#/about", "#/missing"}
RoutePaths == {"", "#/", "#/about"}
RouteLists == UNION {[1..n -> RoutePaths] : n \in 0..MaxRoutes}

\* No signal has been made.
NoSignals ==
    /\ alloc = 0
    /\ value = [c \in Cells |-> 0]
    /\ subs = [c \in Cells |-> <<>>]
    /\ bflag = [c \in Cells |-> 0]
    /\ nh = 0
    /\ inner = [h \in Handles |-> 0]
    /\ origin = [h \in Handles |-> 0]
    /\ nsub = 0
    /\ regs = [c \in Cells |-> <<>>]
    /\ lastArg = [c \in Cells |-> 0]
    /\ stack = <<>>
    /\ status = "ok"
    /\ lsCell = 0
    /\ lsDefault = 0
    /\ store = <<>>
    /\ lastWrite = "none"
    /\ ev = NoEvent

\* `if hash.is_empty() { String::from("#/") } else { hash }`
EffectiveHash(h) == IF h = "" THEN "#/" ELSE h

\* hash.starts_with(path), over Hashes and RoutePaths.
StartsWith(hash, path) ==
    \/ path = ""
    \/ hash = path
    \/ (path = "#/" /\ hash \in {"#/about", "#/missing"})

\* `hash == *path`
Matches(hash, path) == hash = path

MatchingRoutes(routes, hash) == {i \in 1..Len(routes) : Matches(hash, routes[i])}
Ascending(S) ==
    [j \in 1..Cardinality(S) |->
        CHOOSE x \in S : Cardinality({y \in S : y < x}) = j - 1]

\* The loop without its `break`: every matching route is rendered.
NoBreak(routes, hash) == Ascending(MatchingRoutes(routes, hash))

\* `for (path, handler) in routes.iter() { if hash == *path { ...; break } }`:
\* the handlers the loop calls.
MatchLoop(routes, hash) ==
    IF MatchingRoutes(routes, hash) = {}
    THEN <<>>
    ELSE <<Ascending(MatchingRoutes(routes, hash))[1]>>

\* `if !matched { if let Some((_, handler)) = routes.first() { ... } }`
Fallback(routes, matched) ==
    IF matched = <<>> /\ routes /= <<>> THEN <<1>> ELSE <<>>

\* Rendering over what the container already holds.
KeepChildren(children) == children

\* `while let Some(child) = container.first_child() { remove_child(&child) }`
ClearChildren(children) == <<>>

\* The element the handler of route i returns on the n-th handler call.
Output(i, n) == [route |-> i, serial |-> n]

\* `container.append_child(el.as_ref()).ok()` for each handler called.
AppendOutputs(children, calls, serial) ==
    children \o [j \in 1..Len(calls) |-> Output(calls[j], serial + j)]

\* The closure `render`.
Render(routes, hash) ==
    LET matched == MatchLoop(routes, EffectiveHash(hash))
        calls == matched \o Fallback(routes, matched)
    IN
    /\ rSeen' = hash
    /\ rCalls' = calls
    /\ rContainer' = AppendOutputs(ClearChildren(rContainer), calls, rSerial)
    /\ rSerial' = rSerial + Len(calls)

\* use_router(routes): the first render, then the hashchange listener.
UseRouter(routes) ==
    /\ ~rActive
    /\ rRoutes' = routes
    /\ Render(routes, rHash)
    /\ rActive' = TRUE
    /\ UNCHANGED <<rHash, rPending, rNav>>
    /\ UNCHANGED <<sigVars, stack, status, lsVars, ev, tplVars, memoVars, loopVars>>

\* The user follows a link or edits the address: location.hash becomes p and
\* the window fires hashchange, which is queued for the listener if there is one.
Navigate(p) ==
    /\ p /= rHash
    /\ rNav < MaxNav
    /\ rHash' = p
    /\ rNav' = rNav + 1
    /\ rPending' = IF rActive THEN rPending + 1 ELSE rPending
    /\ UNCHANGED <<rRoutes, rActive, rContainer, rCalls, rSeen, rSerial>>
    /\ UNCHANGED <<sigVars, stack, status, lsVars, ev, tplVars, memoVars, loopVars>>

\* The hashchange listener: one queued event is delivered.
HashChange ==
    /\ rPending > 0
    /\ rPending' = rPending - 1
    /\ Render(rRoutes, rHash)
    /\ UNCHANGED <<rRoutes, rHash, rActive, rNav>>
    /\ UNCHANGED <<sigVars, stack, status, lsVars, ev, tplVars, memoVars, loopVars>>

\* The page may have been loaded with any fragment.
InitRouter ==
    /\ NoSignals
    /\ rRoutes = <<>>
    /\ rHash \in Hashes
    /\ rActive = FALSE
    /\ rPending = 0
    /\ rContainer = <<>>
    /\ rCalls = <<>>
    /\ rSeen = ""
    /\ rSerial = 0
    /\ rNav = 0
    /\ NoTemplate
    /\ NoMemo
    /\ NoLoop

NextRouter ==
    \/ \E routes \in RouteLists : UseRouter(routes)
    \/ \E p \in Hashes : Navigate(p)
    \/ HashChange

SpecRouter == InitRouter /\ [][NextRouter]_vars

\* ------------------------------------------------------- tp! (the template)
\* MaxItems bounds the size of a template: its nodes, directives, string
\* literals and embedded expressions together.
MaxItems == 4

TagNames == {"div"}
DirNames == {"class", "href"}
TableNames == {"text", "class", "style", "onclick", "id", "placeholder", "value",
               "oninput", "onkeydown"}
OtherNames == {"href", "Text"}
Exprs == {"n"}
Texts == {"Hi"}

\* The value a host expression has when the procedure runs.
Eval(e) == IF e = "n" THEN 1 ELSE 0

\* `value.to_string()` of a number.
Display(v) == ToString(v)

\* TpNode, NodeMethod and TpChild.
NoNode == [tag |-> "", methods |-> <<>>, children |-> <<>>]
TpNode(tag, methods, children) ==
    [tag |-> tag, methods |-> methods, children |-> children]
NodeMethod(name, arg) == [name |-> name, arg |-> arg]
ChildNode(node) == [kind |-> "Node", node |-> node, s |-> ""]
ChildText(lit) == [kind |-> "Text", node |-> NoNode, s |-> lit]
ChildEmbed(expr) == [kind |-> "Embed", node |-> NoNode, s |-> expr]

\* The templates of a given size.
MethodLists(d) == [1..d -> {NodeMethod(n, e) : n \in DirNames, e \in Exprs}]

RECURSIVE NodesOfSize(_), ForestsOfSize(_)
ChildrenOfSize(j) ==
    {ChildNode(x) : x \in NodesOfSize(j)}
        \cup (IF j = 1
              THEN {ChildText(s) : s \in Texts} \cup {ChildEmbed(e) : e \in Exprs}
              ELSE {})

NodesOfSize(n) ==
    UNION {{TpNode(t, m, f) : t \in TagNames, m \in MethodLists(d),
                              f \in ForestsOfSize(n - 1 - d)} : d \in 0..(n - 1)}

ForestsOfSize(k) ==
    IF k = 0
    THEN {<<>>}
    ELSE UNION {{<<c>> \o f : c \in ChildrenOfSize(j), f \in ForestsOfSize(k - j)} :
                    j \in 1..k}

\* div.class(n) { h1.text(n) }
Example ==
    TpNode("div", <<NodeMethod("class", "n")>>,
           <<ChildNode(TpNode("h1", <<NodeMethod("text", "n")>>, <<>>))>>)

\* One element with one directive, for every directive name.
Singles ==
    {TpNode("input", <<NodeMethod(n, e)>>, <<>>) :
        n \in TableNames \cup OtherNames, e \in Exprs}

Templates == UNION {NodesOfSize(n) : n \in 1..MaxItems} \cup Singles \cup {Example}

\* Token trees as the macro receives them: identifiers, keywords, `.`, string
\* and other literals, and the groups ( ) and { } with their content.  An
\* "expr" token stands for the tokens of one whole host expression.
Token(t, s, c) == [t |-> t, s |-> s, c |-> c]
Ident(s) == Token("id", s, <<>>)
Dot == Token("dot", "", <<>>)
LitStr(s) == Token("str", s, <<>>)
ExprTok(e) == Token("expr", e, <<>>)
Paren(c) == Token("paren", "", c)
Brace(c) == Token("brace", "", c)

RECURSIVE Concat(_)
Concat(ss) == IF ss = <<>> THEN <<>> ELSE Head(ss) \o Concat(Tail(ss))

\* The source text of a template; braces: whether a node without children is
\* written with an empty block.
RECURSIVE Unparse(_, _)
Unparse(node, braces) ==
    <<Ident(node.tag)>>
        \o Concat([j \in 1..Len(node.methods) |->
                <<Dot, Ident(node.methods[j].name),
                  Paren(<<ExprTok(node.methods[j].arg)>>)>>])
        \o (IF node.children = <<>> /\ ~braces
            THEN <<>>
            ELSE <<Brace(Concat([k \in 1..Len(node.children) |->
                        LET c == node.children[k] IN
                        IF c.kind = "Node" THEN Unparse(c.node, braces)
                        ELSE IF c.kind = "Text" THEN <<LitStr(c.s)>>
                        ELSE <<Paren(<<ExprTok(c.s)>>)>>]))>>)

\* Tokens a slip of the hand leaves in a template.
Slips ==
    {Ident("div"), Token("kw", "", <<>>), Dot, Token("num", "", <<>>), LitStr("Hi"),
     Paren(<<>>), Paren(<<ExprTok("n")>>), Paren(<<ExprTok("n"), ExprTok("n")>>),
     Brace(<<>>)}

\* The texts one slip away from a text: a token dropped, replaced or added, at
\* the top or inside a block.
RECURSIVE Edits(_)
Edits(toks) ==
    LET n == Len(toks) IN
    {SubSeq(toks, 1, i - 1) \o SubSeq(toks, i + 1, n) : i \in 1..n}
        \cup {SubSeq(toks, 1, i - 1) \o <<x>> \o SubSeq(toks, i + 1, n) :
                i \in 1..n, x \in Slips}
        \cup {SubSeq(toks, 1, i) \o <<x>> \o SubSeq(toks, i + 1, n) :
                i \in 0..n, x \in Slips}
        \cup UNION {{SubSeq(toks, 1, i - 1) \o <<Brace(c)>> \o SubSeq(toks, i + 1, n) :
                        c \in Edits(toks[i].c)} :
                    i \in {j \in 1..n : toks[j].t = "brace"}}

\* What tp! is applied to: a template as written, or a text one slip away
\* from a small template.
Written == {[tpl |-> <<n>>, toks |-> Unparse(n, b)] : n \in Templates, b \in BOOLEAN}
Slipped ==
    {[tpl |-> <<>>, toks |-> e] :
        e \in UNION {Edits(Unparse(n, b)) :
                        n \in UNION {NodesOfSize(k) : k \in 1..(MaxItems \div 2)},
                        b \in BOOLEAN}}
Inputs == Written \cup Slipped

\* ---------------------------------------------------------- syn: parsing
ParseError == [ok |-> FALSE, node |-> NoNode, rest |-> <<>>]
Parsed(node, rest) == [ok |-> TRUE, node |-> node, rest |-> rest]

\* `content.parse::<Expr>()` over the whole content of a ( ) group.
IsExprContent(c) == Len(c) = 1 /\ c[1].t = "expr"

\* NodeMethod::parse
ParseMethod(toks) ==
    IF Len(toks) >= 3 /\ toks[1].t = "dot" /\ toks[2].t = "id"
        /\ toks[3].t = "paren" /\ IsExprContent(toks[3].c)
    THEN Parsed(NodeMethod(toks[2].s, toks[3].c[1].s), SubSeq(toks, 4, Len(toks)))
    ELSE ParseError

\* `while input.peek(Token![.]) { methods.push(input.parse()?) }`; the result
\* carries the methods in its node field.
RECURSIVE ParseMethods(_, _)
ParseMethods(toks, methods) ==
    IF toks /= <<>> /\ toks[1].t = "dot"
    THEN LET m == ParseMethod(toks) IN
         IF m.ok THEN ParseMethods(m.rest, Append(methods, m.node)) ELSE ParseError
    ELSE Parsed(methods, toks)

\* TpNode::parse and its loop over the content of the block.
RECURSIVE ParseNode(_), ParseChildren(_, _)
ParseChildren(content, children) ==
    IF content = <<>>
    THEN Parsed(children, <<>>)
    ELSE IF content[1].t = "paren"
    THEN IF IsExprContent(content[1].c)
         THEN ParseChildren(Tail(content),
                            Append(children, ChildEmbed(content[1].c[1].s)))
         ELSE ParseError
    ELSE IF content[1].t = "str"
    THEN ParseChildren(Tail(content), Append(children, ChildText(content[1].s)))
    ELSE LET r == ParseNode(content) IN
         IF r.ok
         THEN ParseChildren(r.rest, Append(children, ChildNode(r.node)))
         ELSE ParseError

ParseNode(toks) ==
    IF toks = <<>> \/ toks[1].t /= "id"
    THEN ParseError
    ELSE LET m == ParseMethods(Tail(toks), <<>>) IN
         IF ~m.ok
         THEN ParseError
         ELSE IF m.rest /= <<>> /\ m.rest[1].t = "brace"
         THEN LET k == ParseChildren(m.rest[1].c, <<>>) IN
              IF k.ok
              THEN Parsed(TpNode(toks[1].s, m.node, k.node), Tail(m.rest))
              ELSE ParseError
         ELSE Parsed(TpNode(toks[1].s, m.node, <<>>), m.rest)

\* Accepting a node that is followed by further tokens.
ParsePrefix(toks) == ParseNode(toks)

\* parse_macro_input!(input as TpInput): the whole input is one node.
ParseInput(toks) ==
    LET r == ParseNode(toks) IN
    IF r.ok /\ r.rest = <<>> THEN r ELSE ParseError

\* ------------------------------------------------- generate_node and tp!
\* A statement of the generated procedure, which is also the call it issues:
\* el is the element `__el` is bound to (the path of its node from the root),
\* at the position of the directive or child the statement was generated for,
\* arg a value passed as it is, str a value the primitive passes on as text.
Stmt(op, el, at, name, arg, str, child) ==
    [op |-> op, el |-> el, at |-> at, name |-> name, arg |-> arg, str |-> str,
     child |-> child]
NoHandle == [kind |-> "none", path |-> <<>>, e |-> ""]
NodeHandle(path) == [kind |-> "node", path |-> path, e |-> ""]
Embedded(e) == [kind |-> "embedded", path |-> <<>>, e |-> e]

\* Matching the directive name without regard to case.
MethodNameLower(ident) == IF ident = "Text" THEN "text" ELSE ident

\* `method.name.to_string()`
MethodName(ident) == ident

\* The `match method_name.as_str()` of generate_node.
Resolve(ident, arg, el, j) ==
    LET name == MethodName(ident) IN
    IF name = "text"
    THEN Stmt("set_text_content", el, j, "", 0, Display(Eval(arg)), NoHandle)
    ELSE IF name = "class"
    THEN Stmt("set_class", el, j, "", Eval(arg), "", NoHandle)
    ELSE IF name = "style"
    THEN Stmt("set_style", el, j, "", Eval(arg), "", NoHandle)
    ELSE IF name = "onclick"
    THEN Stmt("set_onclick", el, j, "", Eval(arg), "", NoHandle)
    ELSE IF name = "id"
    THEN Stmt("set_attribute", el, j, "id", 0, Display(Eval(arg)), NoHandle)
    ELSE IF name = "placeholder"
    THEN Stmt("set_attribute", el, j, "placeholder", 0, Display(Eval(arg)), NoHandle)
    ELSE IF name = "value"
    THEN Stmt("set_attribute", el, j, "value", 0, Display(Eval(arg)), NoHandle)
    ELSE IF name = "oninput"
    THEN Stmt("set_oninput", el, j, "", Eval(arg), "", NoHandle)
    ELSE IF name = "onkeydown"
    THEN Stmt("set_onkeydown", el, j, "", Eval(arg), "", NoHandle)
    ELSE Stmt("set_attribute", el, j, name, 0, Display(Eval(arg)), NoHandle)

\* Generating a statement for the first directive only.
FirstMethodOnly(methods, el) ==
    [j \in 1..(IF methods = <<>> THEN 0 ELSE 1) |->
        Resolve(methods[j].name, methods[j].arg, el, j)]

\* `for method in &node.methods`
MethodStmts(methods, el) ==
    [j \in 1..Len(methods) |-> Resolve(methods[j].name, methods[j].arg, el, j)]

\* Appending the child before its own statements have run.
AppendThenBuild(code, el, k) ==
    <<Stmt("append_child", el, k, "", 0, "", NodeHandle(el \o <<k>>))>> \o code

\* `let __child = { #child_code __el }; append_child(&__el, &__child);`
BuildThenAppend(code, el, k) ==
    code \o <<Stmt("append_child", el, k, "", 0, "", NodeHandle(el \o <<k>>))>>

RECURSIVE GenerateNode(_, _)
GenerateNode(node, el) ==
    <<Stmt("create_element", el, 0, node.tag, 0, "", NoHandle)>>
        \o MethodStmts(node.methods, el)
        \o Concat([k \in 1..Len(node.children) |->
                LET c == node.children[k] IN
                IF c.kind = "Node"
                THEN BuildThenAppend(GenerateNode(c.node, el \o <<k>>), el, k)
                ELSE IF c.kind = "Text"
                THEN <<Stmt("append_text_node", el, k, "", 0, c.s, NoHandle)>>
                ELSE <<Stmt("eval", el, k, c.s, 0, "", NoHandle),
                       Stmt("append_child", el, k, "", 0, "", Embedded(c.s))>>])

\* The primitives that panic when the host refuses the call; set_text_content
\* and set_class return nothing the host could refuse with.
Fallible ==
    {"create_element", "set_style", "set_attribute", "append_child",
     "append_text_node", "set_onclick", "set_oninput", "set_onkeydown"}

\* Dropping the refusal and going on.
IgnoreRefusal(phase) == phase

\* `.expect(..)` / `.unwrap_or_else(|_| panic!(..))`
PanicOnRefusal(phase) == "panicked"

\* tp!: the input is parsed and, when it parses, the procedure generated.
Compile ==
    /\ tPhase = "source"
    /\ LET r == ParseInput(tSrc) IN
        IF r.ok
        THEN tPhase' = "compiled" /\ tProg' = GenerateNode(r.node, <<>>)
        ELSE tPhase' = "rejected" /\ tProg' = <<>>
    /\ UNCHANGED <<tTpl, tSrc, tLog, tRefused, tRoot>>
    /\ UNCHANGED <<sigVars, stack, status, lsVars, ev, routerVars, memoVars,
                   loopVars>>

\* The program reaches the expanded block.
Invoke ==
    /\ tPhase = "compiled"
    /\ tPhase' = "running"
    /\ UNCHANGED <<tTpl, tSrc, tProg, tLog, tRefused, tRoot>>
    /\ UNCHANGED <<sigVars, stack, status, lsVars, ev, routerVars, memoVars,
                   loopVars>>

\* The next statement of the procedure runs; accepted: whether the host
\* accepts the call.
Step(accepted) ==
    /\ tPhase = "running"
    /\ Len(tLog) < Len(tProg)
    /\ LET call == tProg[Len(tLog) + 1] IN
        /\ accepted \/ call.op \in Fallible
        /\ tLog' = Append(tLog, call)
        /\ IF accepted
           THEN UNCHANGED <<tPhase, tRefused>>
           ELSE /\ tPhase' = PanicOnRefusal(tPhase)
                /\ tRefused' = IF tRefused = 0 THEN Len(tLog) + 1 ELSE tRefused
    /\ UNCHANGED <<tTpl, tSrc, tProg, tRoot>>
    /\ UNCHANGED <<sigVars, stack, status, lsVars, ev, routerVars, memoVars,
                   loopVars>>

\* The block ends with `__el`: the root's handle is the value of tp!.
Finish ==
    /\ tPhase = "running"
    /\ Len(tLog) = Len(tProg)
    /\ tPhase' = "done"
    /\ tRoot' = <<NodeHandle(<<>>)>>
    /\ UNCHANGED <<tTpl, tSrc, tProg, tLog, tRefused>>
    /\ UNCHANGED <<sigVars, stack, status, lsVars, ev, routerVars, memoVars,
                   loopVars>>

InitTp ==
    /\ NoSignals
    /\ NoRouter
    /\ NoMemo
    /\ NoLoop
    /\ \E in \in Inputs : tTpl = in.tpl /\ tSrc = in.toks
    /\ tPhase = "source"
    /\ tProg = <<>>
    /\ tLog = <<>>
    /\ tRefused = 0
    /\ tRoot = <<>>

NextTp ==
    \/ Compile
    \/ Invoke
    \/ \E accepted \in BOOLEAN : Step(accepted)
    \/ Finish

SpecTp == InitTp /\ [][NextTp]_vars

\* ------------------------------------------------- use_effect, use_interval
\* The host's event loop runs one task at a time to completion: the main
\* function, an event handler, or a timer callback.  `turn` counts the tasks;
\* inTurn holds while a task of the program (main, an event handler) runs.
\* The callbacks handed to use_effect and use_interval are counted, not
\* interpreted.

\* A handler attached with set_onclick / set_oninput begins to run.
BeginTurn ==
    /\ ~inTurn
    /\ turn < MaxTurns
    /\ inTurn' = TRUE
    /\ turn' = turn + 1
    /\ UNCHANGED <<ivHandle, ivSet, ivTicks, ivCalls, efSlot, efQueued, efAt, efCalls>>
    /\ UNCHANGED <<sigVars, stack, status, lsVars, ev, routerVars, tplVars, memoVars>>

\* main or the handler returns to the host.
EndTurn ==
    /\ inTurn
    /\ inTurn' = FALSE
    /\ UNCHANGED <<turn, ivHandle, ivSet, ivTicks, ivCalls, efSlot, efQueued, efAt, efCalls>>
    /\ UNCHANGED <<sigVars, stack, status, lsVars, ev, routerVars, tplVars, memoVars>>

\* The callback run by use_effect itself, before it returns.
CallNow(calls) == calls + 1

\* set_timeout(closure, 0): the closure is queued, nothing is called.
SetTimeout(calls) == calls

\* use_effect(f): f goes into an Option, the closure around it is queued
\* with the host.
UseEffect(j) ==
    /\ inTurn
    /\ efSlot[j] = "none"
    /\ \A k \in 1..(j - 1) : efSlot[k] /= "none"
    /\ efSlot' = [efSlot EXCEPT ![j] = "some"]
    /\ efQueued' = [efQueued EXCEPT ![j] = TRUE]
    /\ efAt' = [efAt EXCEPT ![j] = turn]
    /\ efCalls' = [efCalls EXCEPT ![j] = SetTimeout(@)]
    /\ UNCHANGED <<turn, inTurn, ivHandle, ivSet, ivTicks, ivCalls>>
    /\ UNCHANGED <<sigVars, stack, status, lsVars, ev, routerVars, tplVars, memoVars>>

\* Option::take: the slot is left empty.
Take(slot) == "taken"

\* The host runs the queued closure, as a task of its own: f is taken out of
\* the Option and called; with the Option empty nothing is called.
RunEffect(j) ==
    /\ ~inTurn
    /\ efQueued[j]
    /\ turn' = turn + 1
    /\ efQueued' = [efQueued EXCEPT ![j] = FALSE]
    /\ efSlot' = [efSlot EXCEPT ![j] = Take(@)]
    /\ efCalls' = [efCalls EXCEPT ![j] = IF efSlot[j] = "some" THEN @ + 1 ELSE @]
    /\ UNCHANGED <<inTurn, efAt, ivHandle, ivSet, ivTicks, ivCalls>>
    /\ UNCHANGED <<sigVars, stack, status, lsVars, ev, routerVars, tplVars, memoVars>>

\* use_interval(callback, ms): the closure is registered with the host, the
\* caller gets the IntervalHandle.
UseInterval(i) ==
    /\ inTurn
    /\ ivHandle[i] = "none"
    /\ \A k \in 1..(i - 1) : ivHandle[k] /= "none"
    /\ ivHandle' = [ivHandle EXCEPT ![i] = "alive"]
    /\ ivSet' = [ivSet EXCEPT ![i] = TRUE]
    /\ UNCHANGED <<turn, inTurn, ivTicks, ivCalls, efSlot, efQueued, efAt, efCalls>>
    /\ UNCHANGED <<sigVars, stack, status, lsVars, ev, routerVars, tplVars, memoVars>>

\* A drop that leaves the interval with the host.
KeepInterval(set) == set

\* clear_interval_with_handle: the host no longer holds the interval.
ClearInterval(set) == FALSE

\* The IntervalHandle goes out of scope: Drop::drop clears the interval.
DropHandle(i) ==
    /\ inTurn
    /\ ivHandle[i] = "alive"
    /\ ivHandle' = [ivHandle EXCEPT ![i] = "dropped"]
    /\ ivSet' = [ivSet EXCEPT ![i] = ClearInterval(@)]
    /\ UNCHANGED <<turn, inTurn, ivTicks, ivCalls, efSlot, efQueued, efAt, efCalls>>
    /\ UNCHANGED <<sigVars, stack, status, lsVars, ev, routerVars, tplVars, memoVars>>

\* IntervalHandle::forget: mem::forget consumes the handle, drop never runs.
Forget(i) ==
    /\ inTurn
    /\ ivHandle[i] = "alive"
    /\ ivHandle' = [ivHandle EXCEPT ![i] = "forgotten"]
    /\ UNCHANGED <<turn, inTurn, ivSet, ivTicks, ivCalls, efSlot, efQueued, efAt, efCalls>>
    /\ UNCHANGED <<sigVars, stack, status, lsVars, ev, routerVars, tplVars, memoVars>>

\* A period of interval i has elapsed: the host calls the closure, as a task
\* of its own, when it still holds the interval.
Tick(i) ==
    /\ ~inTurn
    /\ turn < MaxTurns
    /\ ivHandle[i] /= "none"
    /\ turn' = turn + 1
    /\ ivTicks' = [ivTicks EXCEPT ![i] = @ + 1]
    /\ ivCalls' = [ivCalls EXCEPT ![i] = IF ivSet[i] THEN @ + 1 ELSE @]
    /\ UNCHANGED <<inTurn, ivHandle, ivSet, efSlot, efQueued, efAt, efCalls>>
    /\ UNCHANGED <<sigVars, stack, status, lsVars, ev, routerVars, tplVars, memoVars>>

InitLoop ==
    /\ NoSignals
    /\ NoRouter
    /\ NoTemplate
    /\ NoMemo
    /\ NoLoop

NextLoop ==
    \/ BeginTurn
    \/ EndTurn
    \/ \E j \in Effects : UseEffect(j)
    \/ \E j \in Effects : RunEffect(j)
    \/ \E i \in Timers : UseInterval(i)
    \/ \E i \in Timers : DropHandle(i)
    \/ \E i \in Timers : Forget(i)
    \/ \E i \in Timers : Tick(i)

SpecLoop == InitLoop /\ [][NextLoop]_vars

\* Every task returns, and the host runs every timeout it holds.
FairLoop ==
    /\ SpecLoop
    /\ WF_vars(EndTurn)
    /\ \A j \in Effects : WF_vars(RunEffect(j))

\* =================================================================== claims
Range(q) == {q[j] : j \in 1..Len(q)}
IsPrefix(p, q) == Len(p) <= Len(q) /\ SubSeq(q, 1, Len(p)) = p
Frames == Range(stack)

\* C1: the notification round of every set call invokes the subscribers that
\* were registered when the call began, each exactly once and in registration
\* order: while the round runs the ids it has invoked are a prefix of the ids
\* registered at its start, and when it returns they are exactly those ids,
\* also when subscribers made re-entrant set or subscribe calls.
C1_RoundInvokesEachOnce ==
    /\ \A f \in Frames : IsPrefix(f.inv, f.snap) /\ f.snap = SubSeq(regs[f.c], 1, f.n)
    /\ ev.op = "return" => ev.fr.inv = ev.fr.snap /\ Len(ev.fr.snap) = ev.fr.n

\* A round of two subscribers has returned after a re-entrant set and a
\* re-entrant subscribe on its cell.
C1_Witness ==
    /\ ev.op = "return"
    /\ ev.fr.re
    /\ Len(ev.fr.snap) >= 2
    /\ Len(subs[ev.c]) > Len(ev.fr.snap)

\* C2: a nested set runs its whole round and returns before the outer round
\* goes on: every invocation and every return is made by the round that began
\* last among the running ones, a round returns only after invoking all its
\* subscribers, and the rounds that began earlier stay where they are.
C2_NestedRoundRunsFirst ==
    [][ev'.op \in {"invoke", "return"} =>
          /\ \A j \in 1..Len(stack) : stack[j].d <= ev'.fr.d
          /\ \A j \in 1..Len(stack) :
                stack[j].d < ev'.fr.d =>
                    /\ j <= Len(stack')
                    /\ stack'[j].i = stack[j].i
                    /\ stack'[j].inv = stack[j].inv
          /\ ev'.op = "return" => Len(ev'.fr.inv) = ev'.fr.n]_vars

\* The outermost round invokes a remaining subscriber after a nested set on
\* the same cell began (and returned) during that round.
C2_Witness ==
    /\ ev.op = "invoke"
    /\ ev.fr.re
    /\ ev.fr.d = 1
    /\ ev.fr.i >= 1
    /\ Len(stack) = 1

\* C3: a round never invokes a subscriber registered after it began, and a
\* round that returns has invoked every subscriber registered on its cell
\* before it began.
C3_LateSubscribersWait ==
    /\ \A f \in Frames : \A x \in Range(f.inv) : x <= f.start
    /\ ev.op = "return" =>
          /\ \A x \in Range(ev.fr.inv) : x <= ev.fr.start
          /\ \A x \in Range(regs[ev.c]) : x <= ev.fr.start => x \in Range(ev.fr.inv)

\* A nested round returns having invoked a subscriber that was registered
\* during the outer round on the same cell, which is still running.
C3_Witness ==
    /\ ev.op = "return"
    /\ \E f \in Frames :
          /\ f.c = ev.c
          /\ \E x \in Range(ev.fr.inv) : x > f.start

\* C4: the subscriber list of a cell is the closures in the order of their
\* subscribe calls, and every step leaves the earlier list as a prefix of the
\* later one.
C4_SubscribersAppendOnly ==
    [][\A c \in Cells :
          /\ IsPrefix(subs[c], subs'[c])
          /\ Ids(subs'[c]) = regs'[c]]_vars

\* A subscriber has appended a third closure to the list of the cell whose
\* round is running.
C4_Witness ==
    /\ ev.op = "invoke"
    /\ ev.k = "sub"
    /\ Len(subs[ev.c]) = 3
    /\ Len(ev.fr.snap) = 2

\* C5: no borrow of a cell is held while a subscriber runs, and no get, set
\* or subscribe made by a subscriber meets a borrow conflict.
C5_NoBorrowAcrossCallback ==
    /\ status /= "panic"
    /\ \A c \in Cells : bflag[c] = 0

\* A subscriber of a nested round has read the cell while two outer set calls
\* are suspended, one of them on that cell.
C5_Witness ==
    /\ ev.op = "invoke"
    /\ ev.k \in {"get", "sub"}
    /\ Len(stack) >= 3
    /\ \E j \in 1..(Len(stack) - 1) : stack[j].c = ev.t

\* C6 as claimed: every call to set returns, whatever the subscribers are; the
\* nesting of set calls never exhausts the call stack.
C6_SetAlwaysReturns == status /= "overflow"

\* Cells whose subscribers call set on cell x: x -> their targets.
SetTargets(c) == {s.c : s \in {e \in Range(subs[c]) : e.k \in {"clamp", "reset"}}}
ReachN[n \in 0..MaxCells] ==
    [S \in SUBSET Cells |->
        IF n = 0 THEN S ELSE ReachN[n - 1][S \cup UNION {SetTargets(x) : x \in S}]]
HasCycle == \E c \in Cells : c \in ReachN[MaxCells][SetTargets(c)]

\* C6, amended: when the set calls made by subscribers form no cycle among
\* the cells, the call stack is never exhausted and every running set returns.
C6_SetReturnsWithoutCycle ==
    /\ [](status = "overflow" => HasCycle)
    /\ (Running /\ ~HasCycle) ~> (stack = <<>> \/ HasCycle \/ status = "limit")

\* A nested round on another cell has returned into the round that started it.
C6_Witness ==
    /\ ev.op = "return"
    /\ Len(stack) = 1
    /\ stack[1].c /= ev.c
    /\ ~HasCycle

\* C7: get returns the argument of the most recently begun set on the cell, or
\* the initial value: the cell always holds it, every read observes it, and a
\* subscriber of a round during which no other set began observes that
\* round's argument.
C7_GetReturnsLatestSet ==
    /\ \A c \in 1..alloc : Get(c) = lastArg[c]
    /\ (ev.op = "get" \/ (ev.op = "invoke" /\ ev.k = "get")) => ev.v = lastArg[ev.t]
    /\ (ev.op = "invoke" /\ ev.k = "get" /\ ev.t = ev.c /\ ~ev.fr.re) => ev.v = ev.fr.v

\* A remaining subscriber of an outer round observes the value of a nested
\* set, which differs from the outer round's argument.
C7_Witness ==
    /\ ev.op = "invoke"
    /\ ev.k = "get"
    /\ ev.fr.re
    /\ ev.v /= ev.fr.v

\* C8: the handles cloned from one cell share one value and one subscriber
\* list: they hold the same cell, right after set(v) through one of them get
\* through each of them returns v, and that round covers every subscriber
\* registered through any of them.
C8_ClonesShareCell ==
    /\ \A h1, h2 \in 1..nh : origin[h1] = origin[h2] => inner[h1] = inner[h2]
    /\ ev.op = "set" =>
          /\ \A h \in 1..nh : origin[h] = ev.h => Get(inner[h]) = ev.v
          /\ \A c \in Cells : \A e \in Range(subs[c]) :
                e.o = ev.h => e.id \in Range(Top.snap)

\* A set(v), v /= 0, through a handle that has a clone starts a round over a
\* subscriber registered through a handle of that cell.
C8_Witness ==
    /\ ev.op = "set"
    /\ \E h1, h2 \in 1..nh : h1 /= h2 /\ origin[h1] = ev.h /\ origin[h2] = ev.h
    /\ \E e \in Range(subs[ev.c]) : e.o = ev.h
    /\ ev.v /= 0

\* The cells an event operated on.
Touched(e) ==
    IF e.op \in {"create", "clone", "get", "set", "subscribe"} THEN {e.c}
    ELSE IF e.op = "invoke" THEN {e.t}
    ELSE {}

\* C9: cells made by separate use_state calls are independent: handles of
\* different calls hold different cells, a step changes the value and the
\* subscriber list of no cell but the one it operates on, and a round invokes
\* only subscribers of its own cell.
C9_CellsIndependent ==
    [][/\ \A h1, h2 \in 1..nh' : origin'[h1] /= origin'[h2] => inner'[h1] /= inner'[h2]
       /\ \A d \in Cells \ Touched(ev') : value'[d] = value[d] /\ subs'[d] = subs[d]
       /\ ev'.op = "invoke" => ev'.id \in Range(regs[ev'.c]) /\ ev'.c = ev'.fr.c]_vars

\* Two cells with subscribers hold different values after a set on one of
\* them has returned.
C9_Witness ==
    /\ ev.op = "return"
    /\ stack = <<>>
    /\ alloc = 2
    /\ subs[1] /= <<>>
    /\ subs[2] /= <<>>
    /\ value[1] /= value[2]

\* C10 as claimed: after any set(v) on the persistence-backed cell returns,
\* the item stored under the key is the encoded form of v.
C10_StoredAfterEverySet ==
    (ev.op = "return" /\ ev.c = lsCell) => store = <<Encode(ev.v)>>

\* C10, amended: with storage accessible, get right after construction returns
\* the decoded stored item when there is a well-formed one and the default
\* otherwise; and after a set(v) returns whose latest persistence write was
\* not dropped, the stored item is the encoded form of the current value,
\* which is v unless a subscriber made a re-entrant set.
C10_PersistedWhenWritten ==
    /\ ev.op = "create_ls" =>
          /\ store = <<>> => Get(lsCell) = lsDefault
          /\ (store /= <<>> /\ Decode(store[1]) /= <<>>) =>
                Encode(Get(lsCell)) = store[1]
    /\ (ev.op = "return" /\ ev.c = lsCell /\ lastWrite = "ok") =>
          /\ store = <<Encode(Get(lsCell))>>
          /\ ~ev.fr.re => Get(lsCell) = ev.v

\* set(1) has returned after a subscriber made a re-entrant set(0): the stored
\* item is the encoding of 0.
C10_Witness ==
    /\ ev.op = "return"
    /\ ev.c = lsCell
    /\ stack = <<>>
    /\ lastWrite = "ok"
    /\ ev.fr.re
    /\ ev.v = 1
    /\ store = <<Encode(0)>>

WriteFailures == WriteOutcomes \ {"ok"}

\* C11: persistence failures are swallowed.  Construction over a malformed
\* stored item or without storage yields a cell holding the default and does
\* not fail.  When the persistence subscriber of a set(v) fails to reach the
\* storage, to encode or to write, the stored item is left as it was, the cell
\* holds v, the program has not failed, and the set that returns afterwards has
\* invoked every subscriber of its round.
C11_FailuresSwallowed ==
    [][ /\ (ev'.op = "create_ls_nostorage"
              \/ (ev'.op = "create_ls" /\ store /= <<>> /\ Decode(store[1]) = <<>>)) =>
             /\ Get(lsCell)' = lsDefault'
             /\ status' = "ok"
             /\ store' = store
        /\ (ev'.op = "invoke" /\ ev'.k = "writer" /\ lastWrite' \in WriteFailures) =>
             /\ store' = store
             /\ Get(lsCell)' = ev'.fr.v
             /\ status' = "ok"
        /\ (ev'.op = "return" /\ ev'.c = lsCell' /\ status' = "ok") =>
             ev'.fr.inv = ev'.fr.snap
      ]_vars

\* set(1) on the persistence-backed cell has returned after its encoding
\* failed: the item of an earlier session is still stored, the cell holds 1 and
\* the subscriber registered after the persistence subscriber was invoked.
C11_Witness ==
    /\ ev.op = "return"
    /\ ev.c = lsCell
    /\ stack = <<>>
    /\ lastWrite = "encode"
    /\ ev.v = 1
    /\ Get(lsCell) = 1
    /\ store = <<Encode(0)>>
    /\ Len(ev.fr.inv) = 2

\* The pair the specification names for a path: the first pair in list order
\* whose path equals it, the first pair when none does.
FirstEqualOrFirst(routes, path) ==
    IF \E i \in 1..Len(routes) : routes[i] = path
    THEN CHOOSE i \in 1..Len(routes) :
            routes[i] = path /\ \A j \in 1..(i - 1) : routes[j] /= path
    ELSE 1

C14_ContainerHoldsLatestOnly ==
    (rActive /\ rRoutes /= <<>>) =>
        /\ Len(rContainer) = 1
        /\ Len(rCalls) > 0
        /\ rContainer[1] = Output(rCalls[Len(rCalls)], rSerial)
        /\ rPending = 0 => rSeen = rHash

\* After three navigations, all delivered, the container holds the fourth
\* output only.
C14_Witness ==
    /\ rActive
    /\ rRoutes /= <<>>
    /\ rNav = 3
    /\ rPending = 0
    /\ rSerial = 4
    /\ Len(rContainer) = 1
    /\ rContainer[1].serial = 4

\* The nodes of a template with their paths from the root.
RECURSIVE NodesOf(_, _)
NodesOf(node, path) ==
    {[path |-> path, node |-> node]}
        \cup UNION {NodesOf(node.children[k].node, path \o <<k>>) :
                        k \in {j \in 1..Len(node.children) :
                                    node.children[j].kind = "Node"}}

DirectiveOps ==
    {"set_text_content", "set_class", "set_style", "set_attribute",
     "set_onclick", "set_oninput", "set_onkeydown"}
AppendOps == {"append_child", "append_text_node"}

\* The calls issued for child k of the node x whose element was created by
\* call c, given that the calls for the children before k end at call `from`:
\* they are the next calls, they end with the append, and a child node's own
\* calls are all among them.
ChildDone(log, x, k, from, a) ==
    LET child == x.node.children[k]
        sub == x.path \o <<k>>
    IN
    /\ a \in (from + 1)..Len(log)
    /\ log[a].op \in AppendOps /\ log[a].el = x.path /\ log[a].at = k
    /\ IF child.kind = "Node"
       THEN /\ log[a].op = "append_child" /\ log[a].child = NodeHandle(sub)
            /\ a > from + 1
            /\ log[from + 1].op = "create_element" /\ log[from + 1].el = sub
            /\ \A i \in 1..Len(log) :
                    IsPrefix(sub, log[i].el) <=> i \in (from + 1)..(a - 1)
       ELSE IF child.kind = "Text"
       THEN /\ a = from + 1
            /\ log[a].op = "append_text_node" /\ log[a].str = child.s
       ELSE /\ a = from + 2
            /\ log[a - 1].op = "eval" /\ log[a - 1].name = child.s
            /\ log[a].op = "append_child" /\ log[a].child = Embedded(child.s)

\* The call that appends child k of x (0 for k = 0).
AppendOf(log, x, k) ==
    IF k = 0
    THEN 0
    ELSE CHOOSE a \in 1..Len(log) :
            log[a].op \in AppendOps /\ log[a].el = x.path /\ log[a].at = k

\* C15: for every node of a template the procedure creates the element for the
\* tag, then applies the node's directives in source order, then processes the
\* children in declared order: a child node is constructed with its directives
\* and descendants before it is appended, a string literal is appended as a
\* text node, an embedded expression is evaluated and appended as it is; the
\* procedure returns the root's handle.  div.class(n) { h1.text(n) } yields
\* create div, set class, create h1, set text, append h1 into div.
C15_ConstructionOrder ==
    (tPhase = "done" /\ tTpl /= <<>>) =>
        /\ tRoot = <<NodeHandle(<<>>)>>
        /\ tLog[1].op = "create_element" /\ tLog[1].el = <<>>
        /\ \A x \in NodesOf(tTpl[1], <<>>) :
            \E c \in 1..Len(tLog) :
                LET nm == Len(x.node.methods) IN
                /\ tLog[c].op = "create_element"
                /\ tLog[c].el = x.path
                /\ tLog[c].name = x.node.tag
                /\ \A j \in 1..nm :
                        /\ tLog[c + j].op \in DirectiveOps
                        /\ tLog[c + j].el = x.path
                        /\ tLog[c + j].at = j
                /\ \A k \in 1..Len(x.node.children) :
                        \E a \in 1..Len(tLog) :
                            ChildDone(tLog, x, k,
                                      IF k = 1 THEN c + nm ELSE AppendOf(tLog, x, k - 1),
                                      a)
        /\ tTpl = <<Example>> =>
                [i \in 1..Len(tLog) |-> <<tLog[i].op, tLog[i].el>>]
                    = << <<"create_element", <<>> >>, <<"set_class", <<>> >>,
                         <<"create_element", <<1>> >>, <<"set_text_content", <<1>> >>,
                         <<"append_child", <<>> >> >>

\* The procedure of div.class(n) { h1.text(n) } has returned.
C15_Witness ==
    /\ tPhase = "done"
    /\ tTpl = <<Example>>
    /\ Len(tLog) = 5
    /\ tRoot /= <<>>

RECURSIVE NodeCount(_), DirectiveCount(_), Sum(_)
Sum(q) == IF q = <<>> THEN 0 ELSE Head(q) + Sum(Tail(q))
NodeCount(node) ==
    1 + Sum([k \in 1..Len(node.children) |->
                IF node.children[k].kind = "Node"
                THEN NodeCount(node.children[k].node) ELSE 0])
DirectiveCount(node) ==
    Len(node.methods)
        + Sum([k \in 1..Len(node.children) |->
                IF node.children[k].kind = "Node"
                THEN DirectiveCount(node.children[k].node) ELSE 0])

\* Source order of two nodes: an ancestor comes before its descendants, an
\* earlier sibling's subtree before a later sibling's.
Before(p, q) ==
    /\ p /= q
    /\ \/ IsPrefix(p, q)
       \/ \E i \in 1..Len(p) :
            /\ i <= Len(q)
            /\ SubSeq(p, 1, i - 1) = SubSeq(q, 1, i - 1)
            /\ p[i] < q[i]

\* C16: a template with k directives and n nodes issues exactly n
\* create-element calls and exactly k directive calls, each in source order,
\* and every directive call of a node before any child of that node is
\* appended.
C16_CallCounts ==
    (tPhase = "done" /\ tTpl /= <<>>) =>
        LET idx == 1..Len(tLog)
            creates == {i \in idx : tLog[i].op = "create_element"}
            directives == {i \in idx : tLog[i].op \in DirectiveOps}
        IN
        /\ Cardinality(creates) = NodeCount(tTpl[1])
        /\ Cardinality(directives) = DirectiveCount(tTpl[1])
        /\ \A i, j \in creates : i < j => Before(tLog[i].el, tLog[j].el)
        /\ \A i, j \in directives :
                i < j => \/ Before(tLog[i].el, tLog[j].el)
                         \/ (tLog[i].el = tLog[j].el /\ tLog[i].at < tLog[j].at)
        /\ \A i \in directives, j \in idx :
                (tLog[j].op \in AppendOps /\ tLog[j].el = tLog[i].el) => i < j

\* A template of two nodes and two directives has run to its end.
C16_Witness ==
    /\ tPhase = "done"
    /\ tTpl /= <<>>
    /\ NodeCount(tTpl[1]) = 2
    /\ DirectiveCount(tTpl[1]) = 2
    /\ Len(tTpl[1].methods) = 2

\* The primitive listed for each name of the directive table.
Listed ==
    [text |-> "set_text_content", class |-> "set_class", style |-> "set_style",
     id |-> "set_attribute", placeholder |-> "set_attribute",
     value |-> "set_attribute", onclick |-> "set_onclick",
     oninput |-> "set_oninput", onkeydown |-> "set_onkeydown"]

\* C17: a template whose directive names are identifiers compiles whatever the
\* names are; a directive whose name is not in the table resolves to one
\* set-attribute call with the directive name verbatim and the argument
\* stringified; a table name resolves to its listed primitive, id, placeholder
\* and value to set-attribute with that name.
C17_DirectiveResolution ==
    (tTpl /= <<>> /\ tPhase /= "source") =>
        /\ tPhase /= "rejected"
        /\ \A x \in NodesOf(tTpl[1], <<>>) :
            \A j \in 1..Len(x.node.methods) :
                LET m == x.node.methods[j]
                    calls == {i \in 1..Len(tProg) :
                                /\ tProg[i].op \notin AppendOps \cup {"create_element", "eval"}
                                /\ tProg[i].el = x.path
                                /\ tProg[i].at = j}
                IN
                /\ Cardinality(calls) = 1
                /\ \A i \in calls :
                    IF m.name \in DOMAIN Listed
                    THEN /\ tProg[i].op = Listed[m.name]
                         /\ m.name \in {"id", "placeholder", "value"} =>
                                tProg[i].name = m.name
                    ELSE /\ tProg[i].op = "set_attribute"
                         /\ tProg[i].name = m.name
                         /\ tProg[i].str = ToString(Eval(m.arg))

\* input.Text(n) has been compiled and run: the one call after the creation is
\* set-attribute "Text" with the text "1".
C17_Witness ==
    /\ tPhase = "done"
    /\ tTpl /= <<>>
    /\ tTpl[1].methods /= <<>>
    /\ tTpl[1].methods[1].name = "Text"
    /\ tLog[2].op = "set_attribute"
    /\ tLog[2].name = "Text"
    /\ tLog[2].str = "1"

\* The grammar: node := tag directive* block?, directive := '.' name '(' expr
\* ')', block := '{' child* '}', child := node | string-literal | '(' expr ')'.
IsExpr(c) == Len(c) = 1 /\ c[1].t = "expr"
IsDirectives(toks) ==
    /\ Len(toks) % 3 = 0
    /\ \A j \in 0..((Len(toks) \div 3) - 1) :
        /\ toks[3 * j + 1].t = "dot"
        /\ toks[3 * j + 2].t = "id"
        /\ toks[3 * j + 3].t = "paren"
        /\ IsExpr(toks[3 * j + 3].c)

RECURSIVE IsNode(_), IsChildren(_)
IsChild(toks) ==
    \/ Len(toks) = 1 /\ toks[1].t = "str"
    \/ Len(toks) = 1 /\ toks[1].t = "paren" /\ IsExpr(toks[1].c)
    \/ IsNode(toks)
IsChildren(toks) ==
    \/ toks = <<>>
    \/ \E j \in 1..Len(toks) :
        IsChild(SubSeq(toks, 1, j)) /\ IsChildren(SubSeq(toks, j + 1, Len(toks)))
IsNode(toks) ==
    /\ toks /= <<>>
    /\ toks[1].t = "id"
    /\ LET rest == Tail(toks) IN
        \/ IsDirectives(rest)
        \/ /\ rest /= <<>>
           /\ rest[Len(rest)].t = "brace"
           /\ IsDirectives(SubSeq(rest, 1, Len(rest) - 1))
           /\ IsChildren(rest[Len(rest)].c)

\* C18: compiling fails exactly when the input violates the grammar; a failed
\* compilation leaves no procedure, so nothing of it ever runs; and an input
\* that was accepted is not rejected afterwards.
C18_RejectsExactlyGrammarViolations ==
    [][ /\ tPhase' /= "source" =>
            /\ (tPhase' = "rejected") <=> ~IsNode(tSrc')
            /\ tPhase' = "rejected" =>
                    tProg' = <<>> /\ tLog' = <<>> /\ tRoot' = <<>>
        /\ tPhase \in {"compiled", "running", "done", "panicked"} =>
                tPhase' /= "rejected"
      ]_vars

\* A block holding a number literal, a child that is neither a node, a string
\* literal nor a parenthesized expression, has been rejected.
C18_Witness ==
    /\ tPhase = "rejected"
    /\ tProg = <<>>
    /\ \E i \in 1..Len(tSrc) :
        /\ tSrc[i].t = "brace"
        /\ \E k \in 1..Len(tSrc[i].c) : tSrc[i].c[k].t = "num"

\* C19: when the host refuses a call of create element, set style, set
\* attribute, append child, append text node or attach listener, construction
\* stops at that call: the refused call is the last call issued, it was issued
\* once, and no root handle is returned.
C19_RefusalStopsConstruction ==
    /\ IsPrefix(tLog, tProg)
    /\ tRefused /= 0 =>
        /\ tLog[tRefused].op \in
                {"create_element", "set_style", "set_attribute", "append_child",
                 "append_text_node", "set_onclick", "set_oninput", "set_onkeydown"}
        /\ tPhase = "panicked"
        /\ Len(tLog) = tRefused
        /\ tRoot = <<>>
    /\ tRoot /= <<>> => tRefused = 0 /\ tLog = tProg

\* The host has refused the creation of a child element after two accepted
\* calls: the procedure stopped with calls left to issue.
C19_Witness ==
    /\ tPhase = "panicked"
    /\ tRefused = 3
    /\ tLog[3].op = "create_element"
    /\ Len(tProg) > 3
    /\ tRoot = <<>>

\* The runs of the memo's closure in the round of a frame, and the places a
\* cell has in the dependency tuple.
MemoRuns(fr) ==
    Cardinality({j \in 1..Len(fr.inv) :
        \E e \in Range(subs[fr.c]) : e.id = fr.inv[j] /\ e.k = "memo"})
Places(c) == Cardinality({j \in 1..Len(memoDeps) : memoDeps[j] = c})

\* C20 as claimed: every set on a dependency of m = use_memo(deps, compute)
\* triggers exactly one recomputation, and whenever no set is in progress
\* m.get() equals compute() over the current values of the dependencies.
C20_MemoAlwaysCurrent ==
    memoCell /= 0 =>
        /\ (ev.op = "return" /\ ev.c \in Range(memoDeps)) => MemoRuns(ev.fr) = 1
        /\ Idle => Get(memoCell) = Compute(memoDeps)

\* C20, amended: m initially holds compute(); a set on a dependency triggers
\* one recomputation for every place the signal has in deps, exactly one when
\* the signals of deps are distinct, each followed by one m.set of the result,
\* which notifies every subscriber of m whether or not the result changed; and
\* whenever no set is in progress and the latest write of m was made by the
\* memo itself, m.get() equals compute() over the current values of the
\* dependencies.
C20_MemoFollowsDependencies ==
    [][ /\ ev'.op = "create_memo" => Get(memoCell)' = Compute(memoDeps)'
        /\ (ev'.op = "invoke" /\ ev'.k = "memo" /\ status' = "ok") =>
                /\ Len(stack') = Len(stack) + 1
                /\ Top'.c = memoCell
                /\ Top'.v = Compute(memoDeps)'
                /\ Get(memoCell)' = Top'.v
                /\ Top'.snap = Ids(subs[memoCell])
        /\ (ev'.op = "return" /\ memoCell /= 0 /\ ev'.c = memoCell) =>
                ev'.fr.inv = ev'.fr.snap
        /\ (ev'.op = "return" /\ memoCell /= 0 /\ ev'.c \in Range(memoDeps)) =>
                MemoRuns(ev'.fr) = Places(ev'.c)
        /\ (Idle' /\ memoCell' /= 0 /\ memoFresh') =>
                Get(memoCell)' = Compute(memoDeps)'
      ]_vars

\* A set on the second signal of a memo over two distinct signals has
\* returned: the memo was recomputed once and holds compute().
C20_Witness ==
    /\ memoCell /= 0
    /\ Len(memoDeps) = 2
    /\ memoDeps[1] /= memoDeps[2]
    /\ ev.op = "return"
    /\ ev.c = memoDeps[2]
    /\ stack = <<>>
    /\ MemoRuns(ev.fr) = 1
    /\ memoFresh
    /\ Get(memoCell) = Compute(memoDeps)

\* C21: a callback scheduled with use_interval is invoked at every tick of its
\* interval while the IntervalHandle is alive, and only at ticks; dropping the
\* handle clears the interval, and from then on no tick invokes the callback;
\* after forget() the interval stays set for good and every tick keeps
\* invoking the callback.
C21_IntervalFollowsHandle ==
    [][\A i \in Timers :
        /\ (ivTicks'[i] /= ivTicks[i] /\ ivHandle[i] \in {"alive", "forgotten"})
              => ivCalls'[i] = ivCalls[i] + 1
        /\ ivCalls'[i] /= ivCalls[i] => ivTicks'[i] = ivTicks[i] + 1
        /\ ivHandle'[i] = "dropped" => ~ivSet'[i]
        /\ ivHandle[i] = "dropped"
              => ivHandle'[i] = "dropped" /\ ivCalls'[i] = ivCalls[i]
        /\ ivHandle[i] = "forgotten" => ivHandle'[i] = "forgotten" /\ ivSet'[i]
      ]_vars

\* One interval was called, then dropped, and a later tick went by without a
\* call; another was forgotten and goes on being called.
C21_Witness ==
    \E i, k \in Timers :
        /\ ivHandle[i] = "dropped"
        /\ ivCalls[i] >= 1
        /\ ivTicks[i] > ivCalls[i]
        /\ ivHandle[k] = "forgotten"
        /\ ivCalls[k] >= 1
        /\ ivCalls[k] = ivTicks[k]

\* C22: the callback passed to use_effect is not invoked during the task that
\* called use_effect; it is invoked in a later turn of the event loop, once,
\* and never a second time.
C22_EffectRunsOnceLater ==
    /\ [][\A j \in Effects :
            efCalls'[j] /= efCalls[j]
                => /\ ~inTurn
                   /\ efCalls[j] = 0
                   /\ efCalls'[j] = 1
                   /\ turn' > efAt[j]
         ]_vars
    /\ \A j \in Effects : (efSlot[j] = "some") ~> (efCalls[j] = 1)
    /\ \A j \in Effects : [](efCalls[j] = 1 => [](efCalls[j] = 1))

\* An effect has run, in a turn after the one that scheduled it, and the
\* event loop has gone on since.
C22_Witness ==
    \E j \in Effects :
        /\ efCalls[j] = 1
        /\ efSlot[j] = "taken"
        /\ ~efQueued[j]
        /\ turn > efAt[j] + 1

C24_StoredWheneverIdle ==
    (Idle /\ lsCell /= 0 /\ lastWrite \in {"none", "ok"})
        => store = <<Encode(Get(lsCell))>>

\* C24, amended: the persistence writer is the subscriber at index 0 of a
\* persistence-backed cell and the only writer in its list, so every round on
\* the cell runs the writer first, before any user subscriber; construction
\* writes nothing under the key; and whenever no set is in progress and the
\* latest run of the writer stored its item, the stored item is the encoding
\* of get(), also after re-entrant sets made by user subscribers.
C24_WriterFirst ==
    [][/\ lsCell' /= 0 =>
            /\ subs'[lsCell'] /= <<>>
            /\ subs'[lsCell'][1].k = "writer"
            /\ \A j \in 2..Len(subs'[lsCell']) : subs'[lsCell'][j].k /= "writer"
            /\ \A j \in 1..Len(stack') :
                  (stack'[j].c = lsCell' /\ stack'[j].inv /= <<>>)
                      => stack'[j].inv[1] = subs'[lsCell'][1].id
       /\ (ev'.op = "invoke" /\ ev'.c = lsCell' /\ ev'.k /= "writer")
            => /\ ev'.fr.i >= 1
               /\ ev'.fr.inv[1] = subs'[lsCell'][1].id
       /\ ev'.op \in {"create_ls", "create_ls_nostorage"}
            => store' = store /\ lastWrite' = "none"
       /\ (stack' = <<>> /\ status' = "ok" /\ lsCell' /= 0 /\ lastWrite' = "ok")
            => store' = <<Encode(value'[lsCell'])>>
      ]_vars

\* A set on a persistence-backed cell with two user subscribers has returned
\* after one of them made a re-entrant set: the item stored is the encoding of
\* the value the re-entrant set left.
C24_Witness ==
    /\ Idle
    /\ lsCell /= 0
    /\ Len(subs[lsCell]) >= 3
    /\ lastWrite = "ok"
    /\ ev.op = "return"
    /\ ev.fr.re
    /\ Len(ev.fr.inv) >= 3
    /\ ev.v /= Get(lsCell)
    /\ store = <<Encode(Get(lsCell))>>

\* C25: get and subscribe have no effect beyond their result.  A get, by the
\* program or by a subscriber, returns the value of the cell and changes no
\* value and no subscriber list, and starts no round.  A subscribe, by the
\* program or by a subscriber, appends the one new closure to the list of its
\* cell, changes no value and no other list and starts no round; no round
\* that has begun invokes a closure registered after its start, so the new
\* closure first runs in a set that begins later.  The value of a cell
\* changes only in a step that is a set on that cell.
C25_GetAndSubscribeArePure ==
    [][/\ ev'.op = "get"
            => /\ ev'.v = value[ev'.c]
               /\ value' = value
               /\ subs' = subs
               /\ stack' = stack
       /\ (ev'.op = "invoke" /\ ev'.k = "get")
            => /\ ev'.v = value[ev'.t]
               /\ value' = value
               /\ subs' = subs
               /\ Len(stack') = Len(stack)
       /\ ev'.op = "subscribe"
            => /\ value' = value
               /\ stack' = stack
               /\ Len(subs'[ev'.c]) = Len(subs[ev'.c]) + 1
               /\ subs'[ev'.c][Len(subs'[ev'.c])].id = ev'.id
               /\ \A c \in Cells : IsPrefix(subs[c], subs'[c])
               /\ \A c \in Cells \ {ev'.c} : subs'[c] = subs[c]
       /\ (ev'.op = "invoke" /\ ev'.k = "sub")
            => /\ value' = value
               /\ Len(stack') = Len(stack)
               /\ \A c \in Cells \ {ev'.t} : subs'[c] = subs[c]
               /\ Len(subs'[ev'.t]) <= Len(subs[ev'.t]) + 1
       /\ \A j \in 1..Len(stack') :
             \A x \in Range(stack'[j].inv) :
                 x <= stack'[j].start /\ (nsub' > nsub => x /= nsub')
       /\ \A c \in 1..alloc :
             value'[c] /= value[c]
                 => \/ ev'.op = "set" /\ ev'.c = c
                    \/ ev'.op = "invoke" /\ ev'.k \in {"clamp", "reset"} /\ ev'.t = c
      ]_vars

\* The program has read a cell that holds a value written by a set and has
\* subscribers, one of them registered by a subscriber during a round.
C25_Witness ==
    /\ ev.op = "get"
    /\ ev.v /= 0
    /\ Len(subs[ev.c]) >= 2
    /\ \E e \in Range(subs[ev.c]) : e.o = 0
====
